---- MODULE Spec2Model ----
(***************************************************************************)
(* A model of github_listener.py: a daemon that claims a port with a PID   *)
(* file, serves HTTP POST requests that clone a GitHub repository into a   *)
(* fresh temporary directory and opens it in an editor, and shuts down on  *)
(* SIGINT / SIGTERM.                                                       *)
(*                                                                         *)
(* Several daemon processes are started for the same port; the system      *)
(* gives each an identifier when it starts.  Every system call on the PID  *)
(* file is a step of its own, so that the steps of different processes     *)
(* interleave.  What a process holds in memory is gone once it has         *)
(* terminated; only its exit status and the reason of its exit stay on     *)
(* record.  The system holds two more processes that are no daemons, one   *)
(* of the same user and one of another user, which run until they end, and *)
(* a PID file may be there before any daemon is started.                   *)
(***************************************************************************)
EXTENDS Integers, Sequences, FiniteSets, TLC

\* ------------------------------------------------------------------ bounds
NProcs == 2          \* daemon processes started for the port
MaxRequests == 2     \* connections accepted over the whole run
MaxBodyLen == 5      \* words in a request body (SpecPost)
MaxArgLen == 3       \* words in the command-line argument (SpecArgs)

Procs == 1..NProcs
Signals == {"INT", "TERM"}

\* --------------------------------------------------------------- variables
VARIABLES
    proc,         \* per process: the main thread's position, the globals and locals
    req,          \* per process: the request being handled, the locals of do_POST
    fileExists,   \* the PID file of the port exists
    fileText,     \* its content, a sequence of decimal digits
    fileId,       \* the file the path names: who created it (0: it was there before)
    portOwner,    \* the process holding the listening socket (0: none)
    dirs,         \* the temporary directories that exist
    dirStatus,    \* per directory: the status of its request (0: none yet)
    undeleted,    \* the directories shutil.rmtree was called for and left behind
    mkdtempCount, \* directories created so far
    reqCount,     \* connections accepted so far
    tools,        \* per notification tool: absent, works, or fails to start;
                  \* the standard output: what a write to it does
    others,       \* the processes that are no daemons and run
    notes         \* per process: its last call of show_notification

vars == <<proc, req, fileExists, fileText, fileId, portOwner, dirs, dirStatus,
          undeleted, mkdtempCount, reqCount, tools, others, notes>>

pidFile == <<fileExists, fileText, fileId>>
env == <<tools, others>>
notify == <<tools, others, notes>>
tempDirs == <<dirs, dirStatus, undeleted, mkdtempCount>>

\* ------------------------------------------------------- PID file content
\* str(n) for n >= 0, as a sequence of digits
RECURSIVE str(_)
str(n) == IF n < 10 THEN <<n>> ELSE Append(str(n \div 10), n % 10)

\* the largest value of a C int: os.kill takes the identifier as one (line 40)
INT_MAX == 2147483647

\* The integers of Python have no width.  Every value above INT_MAX is kept
\* as this one.
TooLarge == 0 - 1

\* int(text); defined when CanParse(text)
RECURSIVE int(_)
int(text) ==
    IF Len(text) = 1 THEN text[1]
    ELSE LET front == int(SubSeq(text, 1, Len(text) - 1))
             last == text[Len(text)]
         IN  IF front = TooLarge \/ front > (INT_MAX - last) \div 10 THEN TooLarge
             ELSE 10 * front + last

\* f.write(s) and the close of a file opened at its start: s takes the place
\* of the first characters of the content, what lies behind them stays
write(content, s) == s \o SubSeq(content, Len(s) + 1, Len(content))

\* int() raises ValueError on the empty string
CanParse(text) == Len(text) > 0

\* os.getpid(): the identifier the system gave process p when it was started
getpid(p) == proc[p].id

\* the value of `pid` after lines 53-58: None (0) when the file cannot be
\* opened or its content cannot be parsed
ReadPid(exists, text) == IF exists /\ CanParse(text) THEN int(text) ELSE 0

\* line 86: the PID file belongs to the current process
OwnsPidFile(pid_in_file, p) == pid_in_file = getpid(p)

\* (mutant) the port can be bound twice
BindAlwaysSucceeds(owner) == TRUE

\* socket bind + listen in HTTPServer(...): fails when the port is in use
BindSucceeds(owner) == owner = 0

\* ------------------------------------------------------------ white space
\* Characters are written as one-character strings, or named by their code
\* where TLA+ has no way to write them.
\* the white space of C: space, \t, \n, \r, form feed, vertical tab
AsciiWhitespace == {" ", "\t", "\n", "\r", "\f", "0x0B"}

\* the white space above U+007F
UnicodeWhitespace == {"U+0085", "U+00A0", "U+1680", "U+2000", "U+2001", "U+2002",
                      "U+2003", "U+2004", "U+2005", "U+2006", "U+2007", "U+2008",
                      "U+2009", "U+200A", "U+2028", "U+2029", "U+202F", "U+205F",
                      "U+3000"}

\* the characters c with c.isspace(): what str.strip() removes
Whitespace == AsciiWhitespace \cup {"0x1C", "0x1D", "0x1E", "0x1F"}
                  \cup UnicodeWhitespace

\* what int() skips around a number: the separators are not among them
ArgWhitespace == AsciiWhitespace \cup UnicodeWhitespace

\* ---------------------------------------------------------- notifications
\* the tools show_notification looks for, in the order of lines 100-112
Backends == {"notify-send", "kdialog", "zenity"}

\* line 97
TimeoutMs(type_) == IF type_ = "info" THEN 3000 ELSE 5000

\* lines 98-112: the tool of notification_cmd and the timeout it is given
\* (zenity is given none)
NotificationCmd(available, type_) ==
    IF "notify-send" \in available THEN <<"notify-send", TimeoutMs(type_)>>
    ELSE IF "kdialog" \in available THEN <<"kdialog", TimeoutMs(type_) \div 1000>>
    ELSE IF "zenity" \in available THEN <<"zenity", 0>>
    ELSE <<"none", 0>>

\* line 116: the tool is started with subprocess.Popen, which returns once the
\* process is started; every other tool is run with subprocess.run, which
\* returns once the process has ended
UsesPopen(tool) == tool \in {"kdialog", "zenity"}

\* line 126
Stream(type_) == IF type_ = "error" THEN "stderr" ELSE "stdout"

\* A tool is not installed, or it is installed and runs, or it is installed
\* and starting it raises.
ToolStates == {"absent", "works", "fails"}

\* The standard output takes what is written to it ("works"), or a write to
\* it fails (the device is full, the reader is gone).  When sys.stdout passes
\* on what is written at once (python -u) the print raises OSError
\* ("fails").  When sys.stdout keeps the text in its buffer, as it does by
\* default for a file or a pipe, the print returns and the text is still in
\* the buffer when the interpreter ends ("buffers"); the buffer holds more
\* text than the messages of MaxRequests requests.
Stdout == "stdout"
StdoutStates == {"works", "fails", "buffers"}

\* What a process finds around it: the state of every notification tool and
\* of the standard output.
Environments ==
    {e \in [Backends \cup {Stdout} -> ToolStates \cup StdoutStates] :
        /\ e[Stdout] \in StdoutStates
        /\ \A t \in Backends : e[t] \in ToolStates}

\* No call of show_notification has been made.
\*   waiting           the main thread is inside subprocess.run (line 119)
\*   type_             the parameter type_ of the last call
\*   notification_cmd  the tool of notification_cmd and its timeout argument
\*   warned            the warning of lines 121-124 has been printed
\*   printed           the stream the message was printed to
\*   raised            the call was left by the OSError of the print of line 129
NoteInit == [waiting |-> FALSE, type_ |-> "none", notification_cmd |-> <<"none", 0>>,
             warned |-> FALSE, printed |-> "none", raised |-> FALSE]

\* lines 126-129: the message is printed to the stream of its type; nothing
\* catches what the print raises
print_message(installed, note) ==
    IF Stream(note.type_) = Stdout /\ installed[Stdout] = "fails"
    THEN [note EXCEPT !.raised = TRUE]
    ELSE [note EXCEPT !.printed = Stream(note.type_)]

\* show_notification(message, title, type_), lines 95-129, up to its return
\* or, for a tool run with subprocess.run, up to the wait for the end of the
\* tool
show_notification(installed, type_) ==
    LET found == {t \in Backends : installed[t] # "absent"}
        cmd == NotificationCmd(found, type_)
        tool == cmd[1]
        called == [NoteInit EXCEPT !.type_ = type_, !.notification_cmd = cmd]
    IN  IF tool = "none" THEN print_message(installed, called)
        ELSE IF installed[tool] = "fails"
             THEN print_message(installed, [called EXCEPT !.warned = TRUE])
             ELSE IF UsesPopen(tool) THEN print_message(installed, called)
                  ELSE [called EXCEPT !.waiting = TRUE]

\* lines 132-133
show_error(installed) == show_notification(installed, "error")

\* lines 136-137
show_info(installed) == show_notification(installed, "info")

\* ------------------------------------------------- command-line argument
\* line 16
DEFAULT_PORT == 45678

\* An argument is a sequence of characters, written as one-character
\* strings, or named by their code.  int() reads every decimal digit of
\* Unicode (the characters of category Nd), the digits of different scripts
\* mixed at will: the Arabic-Indic and the fullwidth digits stand for the
\* scripts other than ASCII.
AsciiDigits == <<"0", "1", "2", "3", "4", "5", "6", "7", "8", "9">>
DigitChars == {AsciiDigits,
               <<"U+0660", "U+0661", "U+0662", "U+0663", "U+0664",
                 "U+0665", "U+0666", "U+0667", "U+0668", "U+0669">>,
               <<"U+FF10", "U+FF11", "U+FF12", "U+FF13", "U+FF14",
                 "U+FF15", "U+FF16", "U+FF17", "U+FF18", "U+FF19">>}

\* (mutant) only the digits of ASCII are read
IsAsciiDigit(c) == \E d \in 1..10 : AsciiDigits[d] = c

\* c is a decimal digit, and its value
IsDigit(c) == \E script \in DigitChars : \E d \in 1..10 : script[d] = c
DigitValue(c) == (CHOOSE d \in 1..10 : \E script \in DigitChars : script[d] = c) - 1

\* int() skips white space around the number
RECURSIVE ArgLstrip(_)
ArgLstrip(s) == IF s # <<>> /\ s[1] \in ArgWhitespace THEN ArgLstrip(Tail(s)) ELSE s
RECURSIVE ArgRstrip(_)
ArgRstrip(s) == IF s # <<>> /\ s[Len(s)] \in ArgWhitespace
                THEN ArgRstrip(SubSeq(s, 1, Len(s) - 1)) ELSE s
ArgStrip(s) == ArgRstrip(ArgLstrip(s))

\* the sign of the number and what follows the sign
HasSign(t) == t # <<>> /\ t[1] \in {"+", "-"}
Unsigned(t) == IF HasSign(t) THEN Tail(t) ELSE t

\* the digits of a decimal integer, single underscores between them allowed
IsDigitGroup(u) ==
    /\ u # <<>>
    /\ IsDigit(u[1])
    /\ IsDigit(u[Len(u)])
    /\ \A i \in 1..Len(u) : IsDigit(u[i]) \/ u[i] = "_"
    /\ \A i \in 1..(Len(u) - 1) : ~(u[i] = "_" /\ u[i + 1] = "_")

\* int(s) does not raise ValueError
IsIntLiteral(s) == IsDigitGroup(Unsigned(ArgStrip(s)))

\* Every integer above 65535 is outside the range of line 308 whatever its
\* value: such a value is kept as PortCap, so that it stays in machine
\* integers.
PortCap == 65536
RECURSIVE DigitsValue(_)
DigitsValue(u) ==
    IF u = <<>> THEN 0
    ELSE LET front == DigitsValue(SubSeq(u, 1, Len(u) - 1))
             last == u[Len(u)]
         IN  IF last = "_" THEN front
             ELSE IF 10 * front + DigitValue(last) > PortCap THEN PortCap
             ELSE 10 * front + DigitValue(last)

\* int(s), line 307; defined when IsIntLiteral(s)
ParseInt(s) ==
    LET t == ArgStrip(s)
        value == DigitsValue(Unsigned(t))
    IN  IF HasSign(t) /\ t[1] = "-" THEN 0 - value ELSE value

\* line 308
InPortRange(n) == 1024 <= n /\ n <= 65535

\* main, lines 305-314: the port for the arguments argv[1:], or no port when
\* the process is to exit
ParsePort(argv) ==
    IF Len(argv) > 0
    THEN IF IsIntLiteral(argv[1]) /\ InPortRange(ParseInt(argv[1]))
         THEN [ok |-> TRUE, port |-> ParseInt(argv[1])]
         ELSE [ok |-> FALSE, port |-> 0]
    ELSE [ok |-> TRUE, port |-> DEFAULT_PORT]

\* the arguments of the specification Spec: none, or a port below the range
SampleArgv == {<<>>, <<(<<"8", "0">>)>>}

\* the arguments of the specification SpecArgs: every argument of at most
\* MaxArgLen words
ArgWords == {<<"1", "0", "2", "3">>, <<"1", "0", "2", "4">>,
             <<"6", "5", "5", "3", "5">>, <<"6", "5", "5", "3", "6">>,
             <<"U+FF11", "U+0660", "2", "U+FF14">>,
             <<"0">>, <<"-">>, <<"+">>, <<" ">>, <<"_">>, <<"a">>, <<"0x1C">>,
             <<"U+00B2">>}
RECURSIVE ArgsOf(_)
ArgsOf(n) == IF n = 0 THEN {<<>>}
             ELSE LET shorter == ArgsOf(n - 1)
                  IN  shorter \cup {a \o w : a \in shorter, w \in ArgWords}
Argvs == {<<>>} \cup {<<a>> : a \in ArgsOf(MaxArgLen)}

\* ------------------------------------------------------------- requests
\* A body is a sequence of bytes.  A byte below 0x80 is written as the
\* character it encodes.  0xFF is a byte that no UTF-8 text holds; 0xC2 leads
\* a sequence of two bytes, and 0x85 and 0xA0 are continuation bytes: 0xC2
\* 0x85 encodes U+0085 and 0xC2 0xA0 encodes U+00A0.
InvalidByte == "0xFF"
LeadByte == "0xC2"
ContinuationBytes == {"0x85", "0xA0"}

HttpsPrefix == <<"h","t","t","p","s",":","/","/","g","i","t","h","u","b",".","c","o","m","/">>
GitPrefix == <<"g","i","t",":","/","/","g","i","t","h","u","b",".","c","o","m","/">>
SshPrefix == <<"g","i","t","@","g","i","t","h","u","b",".","c","o","m",":">>
DotGit == <<".","g","i","t">>

StartsWith(s, pre) == Len(s) >= Len(pre) /\ SubSeq(s, 1, Len(pre)) = pre
EndsWith(s, suf) == Len(s) >= Len(suf) /\ SubSeq(s, Len(s) - Len(suf) + 1, Len(s)) = suf
Drop(s, n) == SubSeq(s, n + 1, Len(s))

\* the Content-Length header: absent, an empty string, text that is no
\* integer, or an integer n
NoHeader == [kind |-> "absent", n |-> 0]
NumberHeader(n) == [kind |-> "number", n |-> n]

\* (mutant) lines 208-209 are left out: a negative length is not clamped
ParseContentLengthUnclamped(h) ==
    IF h.kind \in {"absent", "empty"} THEN 0
    ELSE IF h.kind = "malformed" THEN 0
    ELSE h.n

\* do_POST, lines 205-215
ParseContentLength(h) ==
    IF h.kind \in {"absent", "empty"} THEN 0
    ELSE IF h.kind = "malformed" THEN 0
    ELSE IF h.n < 0 THEN 0 ELSE h.n

\* rfile.read(n): n bytes, or what the client sent when it sent fewer;
\* everything up to the end of the stream for a negative n
read(body, n) == IF n < 0 \/ n > Len(body) THEN body ELSE SubSeq(body, 1, n)

\* a byte that is a character on its own
IsValidByte(b) == b \notin ({InvalidByte, LeadByte} \cup ContinuationBytes)

\* bytes.decode("utf-8", errors="ignore"): a byte that is part of no
\* complete sequence is dropped; 0xC2 0x85 encodes U+0085 and 0xC2 0xA0
\* encodes U+00A0
RECURSIVE decode(_)
decode(bytes) ==
    IF bytes = <<>> THEN <<>>
    ELSE IF bytes[1] = LeadByte /\ Len(bytes) >= 2 /\ bytes[2] \in ContinuationBytes
         THEN <<IF bytes[2] = "0x85" THEN "U+0085" ELSE "U+00A0">>
                  \o decode(Drop(bytes, 2))
         ELSE IF IsValidByte(bytes[1]) THEN <<bytes[1]>> \o decode(Tail(bytes))
         ELSE decode(Tail(bytes))

\* str.strip()
RECURSIVE lstrip(_)
lstrip(s) == IF s # <<>> /\ s[1] \in Whitespace THEN lstrip(Tail(s)) ELSE s
RECURSIVE rstrip(_)
rstrip(s) == IF s # <<>> /\ s[Len(s)] \in Whitespace
             THEN rstrip(SubSeq(s, 1, Len(s) - 1)) ELSE s
strip(s) == rstrip(lstrip(s))

\* `.` matches every character of s: none is a line feed
AllDot(s) == \A j \in 1..Len(s) : s[j] # "\n"

\* re.match(r"^(https|git)://github\.com/.+/.+(\.git)?$", url): after the
\* prefix, a "/" with at least one character on each side of it
MatchHttps(url) ==
    \E pre \in {HttpsPrefix, GitPrefix} :
        /\ StartsWith(url, pre)
        /\ LET r == Drop(url, Len(pre))
           IN  AllDot(r) /\ \E i \in 2..(Len(r) - 1) : r[i] = "/"

\* re.match(r"^git@github\.com:.+/.+\.git$", url)
MatchSsh(url) ==
    /\ StartsWith(url, SshPrefix)
    /\ LET r == Drop(url, Len(SshPrefix))
       IN  /\ AllDot(r)
           /\ EndsWith(r, DotGit)
           /\ \E i \in 2..(Len(r) - Len(DotGit) - 1) : r[i] = "/"

\* do_POST, lines 225-227
IsValidUrl(url) == MatchHttps(url) \/ MatchSsh(url)

\* do_POST, line 221
NoContent(length, url) == length = 0 \/ url = <<>>

\* the outcomes of the external operations
MkdtempOutcomes == {"created", "OSError"}
CloneOutcomes == {"ok", "CalledProcessError", "OSError"}
EditorOutcomes == {"started", "not_found", "Popen_failed"}
ReadOutcomes == {"read", "ConnectionResetError"}
RmtreeOutcomes == {"removed", "left"}
WriteOutcomes == {"sent", "headers_sent", "ConnectionResetError"}

\* (mutant) check=True is left out: a failed clone goes unnoticed
CloneNeverRaises(outcome) == FALSE

\* subprocess.run(..., check=True) raises CalledProcessError on a non-zero
\* exit status, and OSError when git cannot be executed
CloneRaises(outcome) == outcome # "ok"

\* open_editor and run_detached: True when the editor process was started
open_editor(outcome) == outcome = "started"

\* (mutant) the else branch of lines 255-260 answers 200 as well
EditorStatusAlwaysOk(opened) == 200

\* do_POST, lines 252-260
EditorStatus(opened) == IF opened THEN 200 ELSE 500

\* do_POST, lines 267-274: both except clauses answer 500
ExceptStatus == 500

\* (mutant) the directory is not looked at: rmtree is called for every failure
NeedsCleanupEveryFailure(status, dir, exists) == status >= 400

\* (mutant) only client errors are cleaned up
NeedsCleanupClientError(status, dir, exists) ==
    status >= 400 /\ status < 500 /\ dir # 0 /\ exists

\* (mutant) the status is not looked at
NeedsCleanupAnyStatus(status, dir, exists) == dir # 0 /\ exists

\* do_POST, lines 276-280
NeedsCleanup(status, dir, exists) == status >= 400 /\ dir # 0 /\ exists

\* shutil.rmtree(dir, ignore_errors=True), line 281: the directories that
\* exist after the call; a directory that cannot be removed is left, and
\* nothing is raised
rmtree(existing, dir, outcome) ==
    IF outcome = "removed" THEN existing \ {dir} ELSE existing

\* what of a response has reached the client: the headers, written in one
\* piece, and after them the body
HeadersSent(headers, sent) == IF sent = "ConnectionResetError" THEN {} ELSE headers
BodySent(body, sent) == IF sent = "sent" THEN body ELSE "none"
Responses(sent) == IF sent = "sent" THEN 1 ELSE 0

\* the requests of the specification Spec
SampleRequests == {
    <<NoHeader, <<>>>>,
    <<NumberHeader(1), <<" ">>>>,
    <<NumberHeader(1), <<"a">>>>,
    <<NumberHeader(Len(HttpsPrefix) + 3), HttpsPrefix \o <<"a", "/", "a">>>>,
    <<NumberHeader(Len(SshPrefix) + 7), SshPrefix \o <<"a", "/", "a">> \o DotGit>> }

\* the requests of the specification SpecPost: every body of at most
\* MaxBodyLen words, with every kind of Content-Length header
Words == {HttpsPrefix, GitPrefix, SshPrefix, DotGit, <<"a">>, <<"/">>, <<"\f">>,
          <<LeadByte, "0x85">>, <<InvalidByte>>}
RECURSIVE BodiesOf(_)
BodiesOf(n) == IF n = 0 THEN {<<>>}
               ELSE LET shorter == BodiesOf(n - 1)
                    IN  shorter \cup {b \o w : b \in shorter, w \in Words}
Bodies == BodiesOf(MaxBodyLen)
HeadersFor(b) == {NoHeader, [kind |-> "empty", n |-> 0],
                  [kind |-> "malformed", n |-> 0], NumberHeader(-1),
                  NumberHeader(Len(b))}

\* _send_cors_headers, lines 185-191: the headers it sends, name and value
send_cors_headers(allow_methods) ==
    {<<"Access-Control-Allow-Origin", "*">>,
     <<"Access-Control-Allow-Methods", allow_methods>>,
     <<"Access-Control-Allow-Headers", "Content-Type, X-Requested-With">>,
     <<"Access-Control-Max-Age", "86400">>}

\* the default of the parameter allow_methods, line 185
DefaultAllowMethods == "POST, OPTIONS"

\* (mutant) OPTIONS is answered on the path "/" only
do_OPTIONS_RootOnly(path, header) ==
    IF path = "/"
    THEN [status |-> 204, headers |-> send_cors_headers(DefaultAllowMethods),
          body |-> "empty"]
    ELSE [status |-> 404, headers |-> {}, body |-> "message"]

\* do_OPTIONS, lines 193-197: the response; neither the path nor a header of
\* the request is read, and nothing is written after the headers
do_OPTIONS(path, header) ==
    [status |-> 204, headers |-> send_cors_headers(DefaultAllowMethods),
     body |-> "empty"]

\* do_POST, lines 283-289: the headers of its response
PostHeaders ==
    send_cors_headers(DefaultAllowMethods) \cup
        {<<"Content-Type", "text/plain; charset=utf-8">>,
         <<"Content-Length", "len(response_body_bytes)">>}

\* the accept loop of serve_forever, a request handler included
PostPCs == {"post_read", "post_validate", "post_mkdtemp", "post_clone",
            "post_editor", "post_finally"}
ServingPCs == {"serving", "conn_wait"} \cup PostPCs

\* ------------------------------------------------------------ processes
\* A process before it is started.
\*   pc                    where the main thread is
\*   argv                  sys.argv[1:]
\*   id                    the identifier the system gave the process (0: none)
\*   current_port          the local current_port of main (0: not set)
\*   PID_FILE              the global PID_FILE has been set (line 50)
\*   pid                   the local `pid` of lines 55-60 (0: None)
\*   f                     the file that `f` of line 27 has open (-1: none)
\*   handlers              the signals signal_handler is installed for
\*   http_server_instance  the global is set (line 337)
\*   shutdownPending       a thread about to call shutdown() exists (line 323)
\*   shutdown_request      BaseServer.__shutdown_request
\*   exitCode              the status given to sys.exit, or minus the number
\*                         of the signal that ends the process (-1: none)
\*   exitCause             why main was left
\*   cleanupDone           cleanup_pid_file has returned
\*   reaped                the parent has collected the ended process
\*   recycled              the identifier the process had is now the one of a
\*                         process of the same user that is no daemon
\*   wrote_stdout          a message has been printed to sys.stdout
ProcInit == [pc |-> "idle", id |-> 0, recycled |-> FALSE, argv |-> <<>>,
             current_port |-> 0, PID_FILE |-> FALSE, pid |-> 0,
             f |-> -1, handlers |-> {}, reaped |-> FALSE, wrote_stdout |-> FALSE,
             http_server_instance |-> FALSE, shutdownPending |-> FALSE,
             shutdown_request |-> FALSE, exitCode |-> -1, exitCause |-> "none",
             cleanupDone |-> FALSE]

\* The request being handled: its method, path, Content-Length header and
\* body, the locals of do_POST, what the request has done so far, what of
\* the response has been sent (body: "none" when none was sent, "empty" when
\* nothing follows the headers, "message" for a text), what the write of
\* the response came to, and whether the handler has been left.
ReqInit == [method |-> "none", path |-> "none", response_headers |-> {},
            response_body |-> "none", writeResult |-> "none", finished |-> FALSE,
            rmtreeResult |-> "none",
            header |-> NoHeader, body |-> <<>>, content_length |-> 0,
            readResult |-> "none",
            github_url |-> <<>>, clone_target_dir |-> 0,
            response_status_code |-> 0, mkdtempCalls |-> 0, cloneCalls |-> 0,
            cloneResult |-> "none", editorCalls |-> 0,
            editorStarted |-> FALSE, rmtreeCalls |-> 0, responses |-> 0]

pc(p) == proc[p].pc

\* the main thread of p is at l, and not inside a call of subprocess.run
At(p, l) == pc(p) = l /\ ~notes[p].waiting

\* the process runs
Alive(q) == q \in Procs /\ pc(q) \notin {"idle", "exited", "killed"}

\* Two processes of the system that are no daemons: one of the user who
\* starts the daemons, one of another user.
ForeignPid == NProcs + 1
OtherUserPid == NProcs + 2
OtherPids == {ForeignPid, OtherUserPid}

\* A daemon the system knows has the identifier q.  The system knows a
\* daemon from its start until its parent has collected it: while it runs,
\* and after its end as a zombie.
HoldsPid(q) ==
    \E p \in Procs : pc(p) # "idle" /\ ~proc[p].reaped /\ getpid(p) = q

\* the identifier q, once the one of a daemon, is now the one of a process
\* of the same user that is no daemon
GivenAway(q) == \E p \in Procs : proc[p].recycled /\ proc[p].id = q

\* The identifiers the system can give to a process that is started.  The
\* identifiers of daemons are multiples of 7: some of one digit, some of
\* more.
FreePids == {q \in {7 * n : n \in 1..NProcs} : ~HoldsPid(q) /\ ~GivenAway(q)}

\* lines 37-44, for a number that is a C int: os.kill(pid, 0) succeeds for a
\* process of the same user that runs or is a zombie, a daemon or not; it
\* raises PermissionError for a process of another user and
\* ProcessLookupError when there is none
is_process_running(q) ==
    (q = ForeignPid /\ ForeignPid \in others) \/ GivenAway(q) \/ HoldsPid(q)

InServing(p) == pc(p) \in ServingPCs

\* inside the atexit callback cleanup_pid_file
ReleasePCs == {"rel_exists", "rel_read", "rel_remove"}

\* The PID file before the first daemon is started: none, one that holds
\* no number, one that holds the identifier of a process that is no daemon,
\* or one that holds 2**31, the least number that is no C int.
InitialPidFiles == {[exists |-> FALSE, text |-> <<>>],
                    [exists |-> TRUE, text |-> <<>>],
                    [exists |-> TRUE, text |-> str(ForeignPid)],
                    [exists |-> TRUE, text |-> str(OtherUserPid)],
                    [exists |-> TRUE, text |-> <<2, 1, 4, 7, 4, 8, 3, 6, 4, 8>>]}

\* every notification tool is installed and runs, the standard output takes
\* what is written to it
AllToolsWork == [t \in Backends \cup {Stdout} |-> "works"]

Init ==
    /\ tools \in {[AllToolsWork EXCEPT ![Stdout] = s] : s \in StdoutStates}
    /\ others = OtherPids
    /\ notes = [p \in Procs |-> NoteInit]
    /\ proc = [p \in Procs |-> ProcInit]
    /\ req = [p \in Procs |-> ReqInit]
    /\ \E file \in InitialPidFiles :
           /\ fileExists = file.exists
           /\ fileText = file.text
    /\ fileId = 0
    /\ portOwner = 0
    /\ dirs = {}
    /\ dirStatus = [d \in 1..MaxRequests |-> 0]
    /\ undeleted = {}
    /\ mkdtempCount = 0
    /\ reqCount = 0

\* the main thread of p moves on to l
Goto(p, l) == proc' = [proc EXCEPT ![p].pc = l]

\* the process is gone, its memory with it; `done` tells whether
\* cleanup_pid_file had returned
Dead(st, how, done) == [ProcInit EXCEPT !.pc = how, !.id = st.id,
                                        !.exitCode = st.exitCode,
                                        !.exitCause = st.exitCause,
                                        !.cleanupDone = done]

\* the system closes the sockets of a process that has ended
ReleaseSockets(p) == portOwner' = IF portOwner = p THEN 0 ELSE portOwner

\* The status the interpreter ends with after the atexit callbacks: the one
\* given to sys.exit, or 120 when the text left in the buffer of sys.stdout
\* cannot be written; a process that ends itself with SIGINT ends so in
\* either case.
ExitStatus(installed, st) ==
    IF st.exitCode >= 0 /\ st.wrote_stdout /\ installed[Stdout] = "buffers"
    THEN 120 ELSE st.exitCode

\* the process has terminated
Exit(p, done) ==
    /\ proc' = [proc EXCEPT ![p] =
                  Dead([@ EXCEPT !.exitCode = ExitStatus(tools, proc[p])],
                       "exited", done)]
    /\ req' = [req EXCEPT ![p] = ReqInit]
    /\ notes' = [notes EXCEPT ![p] = NoteInit]
    /\ ReleaseSockets(p)

\* sys.exit(code), or an exception nobody catches, raised in the main thread:
\* inside the atexit callback it ends the callback, elsewhere it leaves the
\* call under way (of subprocess.run, with the file of line 27 closed; of
\* line 337, with the server that http_server_instance does not hold yet
\* released and its socket closed) and the interpreter goes on to run the
\* atexit callbacks.
Raise(p, code, cause) ==
    IF pc(p) \in ReleasePCs
    THEN Exit(p, FALSE)
    ELSE /\ proc' = [proc EXCEPT ![p] = [@ EXCEPT !.pc = "rel_exists", !.pid = 0,
                                           !.f = -1,
                                           !.exitCode = code, !.exitCause = cause]]
         /\ notes' = [notes EXCEPT ![p].waiting = FALSE]
         /\ portOwner' = IF portOwner = p /\ ~proc[p].http_server_instance
                         THEN 0 ELSE portOwner
         /\ UNCHANGED req

\* the process is started with the arguments argv[1:]: main, lines 305-314
StartWith(p, argv) ==
    /\ pc(p) = "idle"
    /\ \E id \in FreePids :
       LET parsed == ParsePort(argv)
       IN  IF parsed.ok
           THEN proc' = [proc EXCEPT ![p] = [@ EXCEPT !.id = id, !.argv = argv,
                                                     !.current_port = parsed.port,
                                                     !.pc = "preflight"]]
           ELSE proc' = [proc EXCEPT ![p] = [@ EXCEPT !.id = id, !.argv = argv,
                                                     !.pc = "rel_exists",
                                                     !.exitCode = 1,
                                                     !.exitCause = "argv"]]
    /\ UNCHANGED <<req, pidFile, portOwner, tempDirs, reqCount, notify>>

\* a process is started for the port
Start(p) == pc(p) = "idle" /\ \E argv \in SampleArgv : StartWith(p, argv)

\* a process is started with any argument
StartAny(p) == pc(p) = "idle" /\ \E argv \in Argvs : StartWith(p, argv)

\* pre_flight_checks: git, code and the clone directory are usable, or
\* show_error is called (lines 167, 170, 174, 177)
PreFlight(p) ==
    /\ At(p, "preflight")
    /\ \E ok \in BOOLEAN :
         IF ok THEN Goto(p, "acq_exists") /\ UNCHANGED notes
               ELSE /\ Goto(p, "preflight_failed")
                    /\ notes' = [notes EXCEPT ![p] = show_error(tools)]
    /\ UNCHANGED <<req, pidFile, portOwner, tempDirs, reqCount, env>>

\* pre_flight_checks, lines 168, 171, 175, 178: sys.exit(1) once show_error
\* has returned
PreFlightExit(p) ==
    /\ At(p, "preflight_failed")
    /\ Raise(p, 1, "preflight")
    /\ UNCHANGED <<pidFile, tempDirs, reqCount, env>>

\* check_and_exit_if_already_running, lines 49-52
AcqExists(p) ==
    /\ At(p, "acq_exists")
    /\ proc' = [proc EXCEPT ![p] = [@ EXCEPT !.PID_FILE = TRUE,
                   !.pc = IF fileExists THEN "acq_read" ELSE "pid_open"]]
    /\ UNCHANGED <<req, pidFile, portOwner, tempDirs, reqCount, notify>>

\* lines 53-58
AcqRead(p) ==
    /\ At(p, "acq_read")
    /\ proc' = [proc EXCEPT ![p] = [@ EXCEPT !.pid = ReadPid(fileExists, fileText),
                                           !.pc = "acq_kill"]]
    /\ UNCHANGED <<req, pidFile, portOwner, tempDirs, reqCount, notify>>

\* lines 60-66: os.kill(pid, 0) of line 40 raises OverflowError for a number
\* that is no C int; lines 41-42 catch OSError only, nothing catches the
\* OverflowError, and the interpreter ends with status 1
AcqKill(p) ==
    /\ At(p, "acq_kill")
    /\ IF proc[p].pid = TooLarge
       THEN Raise(p, 1, "OverflowError")
       ELSE IF proc[p].pid # 0 /\ is_process_running(proc[p].pid)
            THEN Raise(p, 1, "already_running")
            ELSE /\ Goto(p, "acq_remove")
                 /\ UNCHANGED <<req, notes, portOwner>>
    /\ UNCHANGED <<pidFile, tempDirs, reqCount, env>>

\* lines 68-75: os.remove removes the file, or fails: always when the file
\* is gone, possibly when it is there
AcqRemove(p) ==
    /\ At(p, "acq_remove")
    /\ \E removed \in {fileExists, FALSE} :
         IF removed
         THEN /\ fileExists' = FALSE
              /\ fileText' = <<>>
              /\ fileId' = 0
              /\ Goto(p, "pid_open")
              /\ UNCHANGED <<req, notes, portOwner>>
         ELSE /\ Raise(p, 1, "stale_remove")
              /\ UNCHANGED pidFile
    /\ UNCHANGED <<tempDirs, reqCount, env>>

\* create_pid_file, line 27: open(PID_FILE, "w") creates the file or
\* truncates the one that is there, or fails (lines 29-34)
PidOpen(p) ==
    /\ At(p, "pid_open")
    /\ \E opened \in BOOLEAN :
         IF opened
         THEN /\ fileExists' = TRUE
              /\ fileText' = <<>>
              /\ fileId' = IF fileExists THEN fileId ELSE p
              /\ proc' = [proc EXCEPT ![p] =
                            [@ EXCEPT !.f = IF fileExists THEN fileId ELSE p,
                                      !.pc = "pid_write"]]
              /\ UNCHANGED <<req, notes, portOwner>>
         ELSE /\ Raise(p, 1, "pid_file")
              /\ UNCHANGED pidFile
    /\ UNCHANGED <<tempDirs, reqCount, env>>

\* create_pid_file, line 28 and the close of the file: the text goes to the
\* start of the file `f` has open, which the path names unless the file has
\* been removed since; the call of line 317 returns and its local `pid` is
\* gone
PidWrite(p) ==
    /\ At(p, "pid_write")
    /\ \E written \in BOOLEAN :
         IF written
         THEN /\ fileText' = IF fileExists /\ fileId = proc[p].f
                             THEN write(fileText, str(getpid(p)))
                             ELSE fileText
              /\ proc' = [proc EXCEPT ![p] = [@ EXCEPT !.pid = 0, !.f = -1,
                                                     !.pc = "sig_int"]]
              /\ UNCHANGED <<req, notes, portOwner>>
         ELSE /\ Raise(p, 1, "pid_file")
              /\ UNCHANGED fileText
    /\ UNCHANGED <<fileExists, fileId, tempDirs, reqCount, env>>

\* main, line 332
InstallInt(p) ==
    /\ At(p, "sig_int")
    /\ proc' = [proc EXCEPT ![p] = [@ EXCEPT !.handlers = @ \cup {"INT"},
                                           !.pc = "sig_term"]]
    /\ UNCHANGED <<req, pidFile, portOwner, tempDirs, reqCount, notify>>

\* main, line 333
InstallTerm(p) ==
    /\ At(p, "sig_term")
    /\ proc' = [proc EXCEPT ![p] = [@ EXCEPT !.handlers = @ \cup {"TERM"},
                                           !.pc = "bind"]]
    /\ UNCHANGED <<req, pidFile, portOwner, tempDirs, reqCount, notify>>

\* main, lines 335-337, the call HTTPServer(...): the listener is bound, or
\* OSError is raised and show_error is called (lines 342-343)
Bind(p) ==
    /\ At(p, "bind")
    /\ IF BindSucceeds(portOwner)
       THEN /\ portOwner' = p
            /\ Goto(p, "assign")
            /\ UNCHANGED notes
       ELSE /\ Goto(p, "bind_failed")
            /\ notes' = [notes EXCEPT ![p] = show_error(tools)]
            /\ UNCHANGED portOwner
    /\ UNCHANGED <<req, pidFile, tempDirs, reqCount, env>>

\* main, lines 344-349 and 353-356: sys.exit(1) once show_error has
\* returned; http_server_instance is not set and nothing is closed
BindFailed(p) ==
    /\ At(p, "bind_failed")
    /\ Raise(p, 1, "bind")
    /\ UNCHANGED <<pidFile, tempDirs, reqCount, env>>

\* the process once show_notification has got to `note`
Printed(st, note) == [st EXCEPT !.wrote_stdout = @ \/ note.printed = Stdout]

\* main, line 337, the assignment to http_server_instance, and line 339:
\* show_info is called
Assign(p) ==
    /\ At(p, "assign")
    /\ proc' = [proc EXCEPT ![p] =
                  Printed([@ EXCEPT !.http_server_instance = TRUE, !.pc = "serve"],
                          show_info(tools))]
    /\ notes' = [notes EXCEPT ![p] = show_info(tools)]
    /\ UNCHANGED <<req, pidFile, portOwner, tempDirs, reqCount, env>>

\* the loop of serve_forever is left: __shutdown_request is reset
LeaveLoop(p) ==
    proc' = [proc EXCEPT ![p] = [@ EXCEPT !.shutdown_request = FALSE, !.pc = "close"]]

\* main, line 340: serve_forever is entered once show_info has returned; or
\* show_info has raised OSError, and show_error is called (lines 342-343)
ServeForever(p) ==
    /\ At(p, "serve")
    /\ IF notes[p].raised
       THEN /\ Goto(p, "serve_failed")
            /\ notes' = [notes EXCEPT ![p] = show_error(tools)]
       ELSE /\ IF proc[p].shutdown_request THEN LeaveLoop(p) ELSE Goto(p, "serving")
            /\ UNCHANGED notes
    /\ UNCHANGED <<req, pidFile, portOwner, tempDirs, reqCount, env>>

\* serve_forever sees __shutdown_request between two requests
ServeStop(p) ==
    /\ At(p, "serving")
    /\ proc[p].shutdown_request
    /\ LeaveLoop(p)
    /\ UNCHANGED <<req, pidFile, portOwner, tempDirs, reqCount, notify>>

\* the listening socket of p is closed
ClosePort(p) == portOwner' = IF portOwner = p THEN 0 ELSE portOwner

\* main, lines 353-356, and the return of main
ServerClose(p) ==
    /\ At(p, "close")
    /\ ClosePort(p)
    /\ proc' = [proc EXCEPT ![p] = [@ EXCEPT !.pc = "rel_exists", !.exitCode = 0,
                                           !.exitCause = "normal"]]
    /\ UNCHANGED <<req, pidFile, tempDirs, reqCount, notify>>

\* main, lines 344-349 and 353-356: sys.exit(1) once show_error has
\* returned; http_server_instance is set and server_close() is called
ServeFailed(p) ==
    /\ At(p, "serve_failed")
    /\ ClosePort(p)
    /\ proc' = [proc EXCEPT ![p] = [@ EXCEPT !.pc = "rel_exists", !.exitCode = 1,
                                           !.exitCause = "show_info"]]
    /\ UNCHANGED <<req, pidFile, tempDirs, reqCount, notify>>

\* cleanup_pid_file, line 82
RelExists(p) ==
    /\ At(p, "rel_exists")
    /\ IF proc[p].PID_FILE /\ fileExists
       THEN Goto(p, "rel_read") /\ UNCHANGED <<req, notes, portOwner>>
       ELSE Exit(p, TRUE)
    /\ UNCHANGED <<pidFile, tempDirs, reqCount, env>>

\* cleanup_pid_file, lines 84-86 and 88-89
RelRead(p) ==
    /\ At(p, "rel_read")
    /\ IF fileExists /\ CanParse(fileText) /\ OwnsPidFile(int(fileText), p)
       THEN Goto(p, "rel_remove") /\ UNCHANGED <<req, notes, portOwner>>
       ELSE Exit(p, TRUE)
    /\ UNCHANGED <<pidFile, tempDirs, reqCount, env>>

\* cleanup_pid_file, line 87: os.remove removes the file, or fails: always
\* when the file is gone, possibly when it is there; lines 88-89 swallow the
\* failure
RelRemove(p) ==
    /\ At(p, "rel_remove")
    /\ \E removed \in {fileExists, FALSE} :
         IF removed
         THEN /\ fileExists' = FALSE
              /\ fileText' = <<>>
              /\ fileId' = 0
         ELSE UNCHANGED pidFile
    /\ Exit(p, TRUE)
    /\ UNCHANGED <<tempDirs, reqCount, env>>

\* the default action of a signal that ends the process: it is terminated at
\* once, no atexit callback runs
Killed(p, sig) ==
    /\ proc' = [proc EXCEPT ![p] =
                  [ProcInit EXCEPT !.pc = "killed", !.id = proc[p].id,
                                   !.exitCode = -15,
                                   !.exitCause = sig]]
    /\ req' = [req EXCEPT ![p] = ReqInit]
    /\ notes' = [notes EXCEPT ![p] = NoteInit]
    /\ ReleaseSockets(p)

\* SIGINT or SIGTERM is delivered to process p
Signal(p, sig) ==
    /\ Alive(p)
    /\ IF sig \in proc[p].handlers
       THEN \* signal_handler, lines 319-330
            IF proc[p].http_server_instance
            THEN /\ proc' = [proc EXCEPT ![p].shutdownPending = TRUE]
                 /\ UNCHANGED <<req, notes, portOwner>>
            ELSE Raise(p, 0, "handler_exit")
       ELSE IF sig = "TERM"
            THEN Killed(p, "SIGTERM")
            ELSE \* default handler: KeyboardInterrupt in the main thread; the
                 \* interpreter runs the atexit callbacks and then ends the
                 \* process with SIGINT
                 Raise(p, -2, "KeyboardInterrupt")
    /\ UNCHANGED <<pidFile, tempDirs, reqCount, env>>

\* the thread started at line 323 runs BaseServer.shutdown()
ShutdownThread(p) ==
    /\ Alive(p)
    /\ proc[p].shutdownPending
    /\ proc' = [proc EXCEPT ![p] = [@ EXCEPT !.shutdownPending = FALSE,
                                           !.shutdown_request = TRUE]]
    /\ UNCHANGED <<req, pidFile, portOwner, tempDirs, reqCount, notify>>

\* subprocess.run of line 119 returns: the tool has ended; lines 126-129 and
\* the return of show_notification
NotifyReturn(p) ==
    /\ Alive(p)
    /\ notes[p].waiting
    /\ LET note == print_message(tools, [notes[p] EXCEPT !.waiting = FALSE])
       IN  /\ notes' = [notes EXCEPT ![p] = note]
           /\ proc' = [proc EXCEPT ![p] = Printed(@, note)]
    /\ UNCHANGED <<req, pidFile, portOwner, tempDirs, reqCount, env>>

\* the parent of the ended process p collects it: its identifier is free
Reap(p) ==
    /\ pc(p) \in {"exited", "killed"}
    /\ ~proc[p].reaped
    /\ proc' = [proc EXCEPT ![p].reaped = TRUE]
    /\ UNCHANGED <<req, pidFile, portOwner, tempDirs, reqCount, notify>>

\* the system gives the free identifier that daemon p had to a process of
\* the same user that is no daemon
Recycle(p) ==
    /\ proc[p].reaped
    /\ getpid(p) \in FreePids
    /\ proc' = [proc EXCEPT ![p].recycled = TRUE]
    /\ UNCHANGED <<req, pidFile, portOwner, tempDirs, reqCount, notify>>

\* the process that was given the identifier daemon p had ends
RecycledExit(p) ==
    /\ proc[p].recycled
    /\ proc' = [proc EXCEPT ![p].recycled = FALSE]
    /\ UNCHANGED <<req, pidFile, portOwner, tempDirs, reqCount, notify>>

\* a process that is no daemon ends
OtherExit(q) ==
    /\ q \in others
    /\ others' = others \ {q}
    /\ UNCHANGED <<proc, req, pidFile, portOwner, tempDirs, reqCount, tools, notes>>

\* The standard output stops taking what is written to it: the device is
\* full or the reader has gone.
StdoutBreaks ==
    /\ tools[Stdout] = "works"
    /\ \E broken \in StdoutStates \ {"works"} :
           tools' = [tools EXCEPT ![Stdout] = broken]
    /\ UNCHANGED <<proc, req, pidFile, portOwner, tempDirs, reqCount, others, notes>>

\* ------------------------------------------------------------- do_POST
\* serve_forever accepts a connection while __shutdown_request is not set,
\* and the handler waits for the request line (rfile.readline, without a
\* timeout); the protocol is HTTP/1.0, one request for each connection
Accept(p) ==
    /\ At(p, "serving")
    /\ ~proc[p].shutdown_request
    /\ reqCount < MaxRequests
    /\ reqCount' = reqCount + 1
    /\ req' = [req EXCEPT ![p] = ReqInit]
    /\ Goto(p, "conn_wait")
    /\ UNCHANGED <<pidFile, portOwner, tempDirs, notify>>

\* the client closes or resets the connection before it has sent a request:
\* the handler is left and the loop of serve_forever goes on
ConnClosed(p) ==
    /\ At(p, "conn_wait")
    /\ Goto(p, "serving")
    /\ UNCHANGED <<req, pidFile, portOwner, tempDirs, reqCount, notify>>

\* lines 199-215: the request line and the headers of a POST request have
\* arrived, its Content-Length is parsed
PostBegin(p, h, b) ==
    /\ At(p, "conn_wait")
    /\ req' = [req EXCEPT ![p] =
                 [ReqInit EXCEPT !.method = "POST", !.header = h, !.body = b,
                     !.content_length = ParseContentLength(h),
                     !.response_status_code = 500]]
    /\ Goto(p, "post_read")
    /\ UNCHANGED <<pidFile, portOwner, tempDirs, reqCount, notify>>

\* a client sends a POST request
Receive(p) == At(p, "conn_wait") /\ \E r \in SampleRequests : PostBegin(p, r[1], r[2])

\* a client sends any POST request
ReceiveAny(p) ==
    At(p, "conn_wait") /\ \E b \in Bodies : \E h \in HeadersFor(b) : PostBegin(p, h, b)

\* lines 217-219: the body has arrived, or the client has closed, and
\* rfile.read returns; or the connection is reset while bytes are awaited
\* and rfile.read raises (lines 271-274)
PostRead(p) ==
    /\ At(p, "post_read")
    /\ \E outcome \in ReadOutcomes :
         IF outcome = "read"
         THEN /\ req' = [req EXCEPT ![p] =
                          [@ EXCEPT !.readResult = outcome,
                                    !.github_url =
                                        strip(decode(read(req[p].body,
                                                          req[p].content_length)))]]
              /\ Goto(p, "post_validate")
              /\ UNCHANGED notes
         ELSE /\ req[p].content_length # 0
              /\ req' = [req EXCEPT ![p] = [@ EXCEPT !.readResult = outcome,
                                             !.response_status_code = ExceptStatus]]
              /\ Goto(p, "post_finally")
              /\ notes' = [notes EXCEPT ![p] = show_error(tools)]
    /\ UNCHANGED <<pidFile, portOwner, tempDirs, reqCount, env>>

\* lines 221-232 and 262-265
PostValidate(p) ==
    /\ At(p, "post_validate")
    /\ IF NoContent(req[p].content_length, req[p].github_url)
       THEN /\ req' = [req EXCEPT ![p].response_status_code = 400]
            /\ Goto(p, "post_finally")
            /\ notes' = [notes EXCEPT ![p] = show_error(tools)]
       ELSE IF IsValidUrl(req[p].github_url)
            THEN /\ Goto(p, "post_mkdtemp")
                 /\ UNCHANGED <<req, notes>>
            ELSE /\ req' = [req EXCEPT ![p].response_status_code = 400]
                 /\ Goto(p, "post_finally")
                 /\ notes' = [notes EXCEPT ![p] = show_error(tools)]
    /\ UNCHANGED <<pidFile, portOwner, tempDirs, reqCount, env>>

\* lines 234-237 and 271-274
PostMkdtemp(p) ==
    /\ At(p, "post_mkdtemp")
    /\ \E outcome \in MkdtempOutcomes :
         IF outcome = "created"
         THEN /\ mkdtempCount' = mkdtempCount + 1
              /\ dirs' = dirs \cup {mkdtempCount + 1}
              /\ req' = [req EXCEPT ![p] = [@ EXCEPT !.mkdtempCalls = @ + 1,
                                             !.clone_target_dir = mkdtempCount + 1]]
              /\ proc' = [proc EXCEPT ![p] =
                            Printed([@ EXCEPT !.pc = "post_clone"], show_info(tools))]
              /\ notes' = [notes EXCEPT ![p] = show_info(tools)]
         ELSE /\ req' = [req EXCEPT ![p] = [@ EXCEPT !.mkdtempCalls = @ + 1,
                                             !.response_status_code = ExceptStatus]]
              /\ Goto(p, "post_finally")
              /\ notes' = [notes EXCEPT ![p] = show_error(tools)]
              /\ UNCHANGED <<mkdtempCount, dirs>>
    /\ UNCHANGED <<pidFile, portOwner, dirStatus, undeleted, reqCount, env>>

\* lines 239-250 and 267-274; when show_info of line 237 has raised, git is
\* not run (lines 271-274)
PostClone(p) ==
    /\ At(p, "post_clone")
    /\ \E outcome \in CloneOutcomes :
         IF notes[p].raised
         THEN /\ req' = [req EXCEPT ![p].response_status_code = ExceptStatus]
              /\ Goto(p, "post_finally")
              /\ notes' = [notes EXCEPT ![p] = show_error(tools)]
         ELSE IF CloneRaises(outcome)
         THEN /\ req' = [req EXCEPT ![p] = [@ EXCEPT !.cloneCalls = @ + 1,
                                             !.cloneResult = outcome,
                                             !.response_status_code = ExceptStatus]]
              /\ Goto(p, "post_finally")
              /\ notes' = [notes EXCEPT ![p] = show_error(tools)]
         ELSE /\ req' = [req EXCEPT ![p] = [@ EXCEPT !.cloneCalls = @ + 1,
                                             !.cloneResult = outcome]]
              /\ Goto(p, "post_editor")
              /\ UNCHANGED notes
    /\ UNCHANGED <<pidFile, portOwner, tempDirs, reqCount, env>>

\* lines 252-260, open_editor and run_detached: show_error is called when
\* the editor is not started (lines 149, 159)
PostEditor(p) ==
    /\ At(p, "post_editor")
    /\ \E outcome \in EditorOutcomes :
         /\ req' = [req EXCEPT ![p] =
                      [@ EXCEPT !.editorCalls = @ + 1,
                                !.editorStarted = open_editor(outcome),
                                !.response_status_code = EditorStatus(open_editor(outcome))]]
         /\ notes' = IF open_editor(outcome) THEN notes
                     ELSE [notes EXCEPT ![p] = show_error(tools)]
    /\ Goto(p, "post_finally")
    /\ UNCHANGED <<pidFile, portOwner, tempDirs, reqCount, env>>

\* lines 275-290: the clean-up, then the response.  The headers are written
\* at line 288 and the body at line 289; on a connection the client has
\* reset the write raises, what follows it is not sent, the server reports
\* the exception and its loop goes on.  A connection that was reset while
\* the body was read stays reset.
PostFinally(p) ==
    /\ At(p, "post_finally")
    /\ \E removal \in RmtreeOutcomes : \E sent \in WriteOutcomes :
         LET dir == req[p].clone_target_dir
             status == req[p].response_status_code
             cleanup == NeedsCleanup(status, dir, dir \in dirs)
         IN  /\ req[p].readResult = "ConnectionResetError" => sent = "ConnectionResetError"
             /\ ~cleanup => removal = "removed"
             /\ dirs' = IF cleanup THEN rmtree(dirs, dir, removal) ELSE dirs
             /\ undeleted' = IF cleanup /\ removal # "removed"
                              THEN undeleted \cup {dir} ELSE undeleted
             /\ dirStatus' = IF dir # 0 THEN [dirStatus EXCEPT ![dir] = status]
                             ELSE dirStatus
             /\ req' = [req EXCEPT ![p] =
                          [@ EXCEPT !.rmtreeCalls = IF cleanup THEN @ + 1 ELSE @,
                                    !.rmtreeResult = IF cleanup THEN removal ELSE @,
                                    !.response_headers = HeadersSent(PostHeaders, sent),
                                    !.response_body = BodySent("message", sent),
                                    !.writeResult = sent,
                                    !.responses = @ + Responses(sent),
                                    !.finished = TRUE]]
    /\ Goto(p, "serving")
    /\ UNCHANGED <<pidFile, portOwner, mkdtempCount, reqCount, notify>>

\* the request line of an OPTIONS request has arrived and do_OPTIONS runs:
\* its response is the headers, written at line 196
OptionsRequest(p, path, header) ==
    /\ At(p, "conn_wait")
    /\ \E sent \in WriteOutcomes \ {"headers_sent"} :
         LET response == do_OPTIONS(path, header)
         IN  req' = [req EXCEPT ![p] =
                       [ReqInit EXCEPT !.method = "OPTIONS", !.path = path,
                           !.header = header,
                           !.response_status_code = response.status,
                           !.response_headers = HeadersSent(response.headers, sent),
                           !.response_body = BodySent(response.body, sent),
                           !.writeResult = sent,
                           !.responses = Responses(sent),
                           !.finished = TRUE]]
    /\ Goto(p, "serving")
    /\ UNCHANGED <<pidFile, portOwner, tempDirs, reqCount, notify>>

\* a client sends an OPTIONS request
ReceiveOptions(p) ==
    /\ At(p, "conn_wait")
    /\ \E path \in {"/", "/clone"} : \E header \in {NoHeader, NumberHeader(1)} :
           OptionsRequest(p, path, header)

\* ------------------------------------------------------- specifications
\* the steps of the main thread on the way to the accept loop
Startup(p) ==
    \/ Start(p)
    \/ PreFlight(p)
    \/ PreFlightExit(p)
    \/ AcqExists(p)
    \/ AcqRead(p)
    \/ AcqKill(p)
    \/ AcqRemove(p)
    \/ PidOpen(p)
    \/ PidWrite(p)
    \/ InstallInt(p)
    \/ InstallTerm(p)
    \/ Bind(p)
    \/ BindFailed(p)
    \/ Assign(p)
    \/ ServeForever(p)
    \/ ServeFailed(p)

\* the steps of a request
Handle(p) ==
    \/ PostRead(p)
    \/ PostValidate(p)
    \/ PostMkdtemp(p)
    \/ PostClone(p)
    \/ PostEditor(p)
    \/ PostFinally(p)

\* the steps from the accept loop to the end of the process, the signals and
\* the shutdown thread
Shutdown(p) ==
    \/ ServeStop(p)
    \/ ServerClose(p)
    \/ RelExists(p)
    \/ RelRead(p)
    \/ RelRemove(p)
    \/ ShutdownThread(p)
    \/ \E sig \in Signals : Signal(p, sig)

\* what the rest of the system does for p: a notification tool ends, the
\* parent collects the ended process, the identifier it had is given to
\* another process, which ends in its turn
System(p) == NotifyReturn(p) \/ Reap(p) \/ Recycle(p) \/ RecycledExit(p)

\* what a client does to p: it connects, sends a request, or goes away
\* without one
Client(p) == Accept(p) \/ ConnClosed(p) \/ Receive(p) \/ ReceiveOptions(p)

\* what happens around the daemons
Environment == StdoutBreaks \/ \E q \in OtherPids : OtherExit(q)

Next ==
    \/ \E p \in Procs : Startup(p) \/ Client(p) \/ Handle(p) \/ Shutdown(p)
                            \/ System(p)
    \/ Environment

\* every interleaving of the processes
Spec == Init /\ [][Next]_vars

\* The processes from their start to their end, without requests.
NextLife ==
    (\E p \in Procs : Startup(p) \/ Shutdown(p) \/ System(p)) \/ Environment

SpecLife == Init /\ [][NextLife]_vars

\* Process 1 has started alone, no PID file in its way, and is in its accept
\* loop.  show_info of line 339 has returned: the notification tool has
\* ended, the message was printed while the standard output took it.
ServingInit ==
    /\ others = OtherPids
    /\ LET note == show_info([tools EXCEPT ![Stdout] = "works"])
           started == [note EXCEPT !.waiting = FALSE,
                                    !.printed = Stream(note.type_)]
       IN  notes = [p \in Procs |-> IF p = 1 THEN started ELSE NoteInit]
    /\ proc = [p \in Procs |->
                 IF p = 1
                 THEN [ProcInit EXCEPT !.pc = "serving", !.id = 7,
                                       !.current_port = DEFAULT_PORT,
                                       !.PID_FILE = TRUE,
                                       !.handlers = Signals,
                                       !.http_server_instance = TRUE,
                                       !.wrote_stdout = TRUE]
                 ELSE ProcInit]
    /\ req = [p \in Procs |-> ReqInit]
    /\ fileExists = TRUE
    /\ fileText = str(7)
    /\ fileId = 1
    /\ portOwner = 1
    /\ dirs = {}
    /\ dirStatus = [d \in 1..MaxRequests |-> 0]
    /\ undeleted = {}
    /\ mkdtempCount = 0
    /\ reqCount = 0

\* One request with any body.
InitPost == tools = AllToolsWork /\ ServingInit

NextPost ==
    \E p \in Procs :
        (reqCount = 0 /\ Accept(p)) \/ ReceiveAny(p) \/ Handle(p) \/ NotifyReturn(p)

SpecPost == InitPost /\ [][NextPost]_vars

\* The requests of process 1 up to its end, signals included.
NextServe ==
    \/ \E p \in Procs : Client(p) \/ Handle(p) \/ Shutdown(p) \/ System(p)
    \/ StdoutBreaks

SpecServe == InitPost /\ [][NextServe]_vars

\* The start of one process with any argument, up to the pre-flight checks
\* or to the exit of the process.
NextArgs ==
    \E p \in Procs :
        /\ \A q \in Procs \ {p} : pc(q) = "idle"
        /\ (StartAny(p) \/ PreFlight(p) \/ PreFlightExit(p)
               \/ NotifyReturn(p) \/ RelExists(p))

SpecArgs == Init /\ [][NextArgs]_vars

\* The threads of a process run on: the main thread finishes the request it
\* handles (the client sends its body or closes, git clone terminates, the
\* notification tool ends), leaves serve_forever once it sees
\* __shutdown_request between two connections and runs to the end of main
\* and of the atexit callback, and the thread of line 323 gets to call
\* shutdown().  Nothing obliges a client to connect, a client that has
\* connected to send its request or to go away, or anybody to send a signal.
Fairness ==
    \A p \in Procs :
        /\ WF_vars(Handle(p))
        /\ WF_vars(NotifyReturn(p))
        /\ WF_vars(ServeStop(p))
        /\ WF_vars(ServerClose(p))
        /\ WF_vars(RelExists(p) \/ RelRead(p) \/ RelRemove(p))
        /\ WF_vars(ShutdownThread(p))

SpecServeFair == SpecServe /\ Fairness

\* The requests of process 1 up to its end, with any of the notification
\* tools absent, working or failing to start, and a standard output that
\* takes what is written to it or has stopped doing so.
InitNotify == tools \in Environments /\ ServingInit

SpecNotify == InitNotify /\ [][NextServe]_vars

\* ---------------------------------------------------------------- claims
\* the request of p has been handled: its handler has been left
Handled(p) == req[p].finished

\* the clone of the request of p succeeded and its editor did not start
EditorFailed(p) ==
    /\ Handled(p)
    /\ req[p].cloneResult = "ok"
    /\ req[p].editorCalls = 1
    /\ ~req[p].editorStarted

\* C1 as stated: when the clone succeeded and the editor failed to start, the
\* status is 500 and the temporary directory still exists after the request.
C1_EditorFailureKeepsDirectory ==
    \A p \in Procs :
        EditorFailed(p) =>
            /\ req[p].response_status_code = 500
            /\ req[p].clone_target_dir \in dirs

\* the recursive delete of the request of p did not remove the directory
DeleteFailed(p) == req[p].rmtreeResult = "left"

\* C2: once a request has been handled, a status >= 400 and a directory
\* created for the request mean that the directory does not exist, whatever
\* the outcomes of mkdtemp, clone and editor were, unless the recursive
\* delete itself failed; this stays so after later requests.
C2_FailureLeavesNoDirectory ==
    /\ \A p \in Procs :
           (Handled(p) /\ req[p].response_status_code >= 400
                       /\ req[p].clone_target_dir # 0
                       /\ ~DeleteFailed(p))
               => req[p].clone_target_dir \notin dirs
    /\ \A d \in DOMAIN dirStatus :
           (dirStatus[d] >= 400 /\ d \notin undeleted) => d \notin dirs

\* two requests have failed and the directory of each has been deleted
C2_Witness ==
    \E p \in Procs : \E d \in DOMAIN dirStatus :
        /\ Handled(p)
        /\ req[p].cloneResult = "CalledProcessError"
        /\ req[p].clone_target_dir # 0
        /\ ~DeleteFailed(p)
        /\ d # req[p].clone_target_dir
        /\ d \notin undeleted
        /\ dirStatus[d] = 500
        /\ dirStatus[req[p].clone_target_dir] = 500

\* C3: at most one process is in the accept loop for the port, under every
\* interleaving of the startup steps of the processes.
C3_AtMostOneServing == Cardinality({p \in Procs : InServing(p)}) <= 1

C3_Witness ==
    \E p, q \in Procs :
        /\ InServing(p)
        /\ proc[q].exitCause = "bind"

\* no other daemon has had the identifier of p
OnlyHolder(p) == \A q \in Procs \ {p} : getpid(q) # getpid(p)

\* C4 as stated: after a process has terminated (normal exit, SIGINT or
\* SIGTERM at any point, uncaught exception), the PID file does not hold the
\* identifier of that process (an identifier that no other daemon has had).
C4_ReleaseOnEveryTermination ==
    \A p \in Procs :
        (pc(p) \in {"exited", "killed"} /\ OnlyHolder(p)) =>
            ~(fileExists /\ fileText = str(getpid(p)))

\* the identifier in the PID file (0: no file, or no identifier in it)
MarkerPid == ReadPid(fileExists, fileText)

\* the step is the delivery of a signal to p that ends main
BySignal(p) ==
    /\ proc'[p].exitCause # proc[p].exitCause
    /\ proc'[p].exitCause \in {"SIGTERM", "KeyboardInterrupt", "handler_exit"}

\* p takes a step of its main thread
MainStep(p) == proc'[p] # proc[p] /\ ~BySignal(p)

\* a process with the identifier q is alive: a daemon that runs, or one of
\* the other processes of the system that has not ended
StillAlive(q) ==
    \/ \E p \in Procs : Alive(p) /\ getpid(p) = q
    \/ q \in others
    \/ GivenAway(q)

\* no other process has touched the PID file since p read or opened it
Undisturbed(p) ==
    CASE pc(p) \in {"acq_kill", "acq_remove"} ->
             fileExists /\ MarkerPid = proc[p].pid
      [] pc(p) = "pid_write" ->
             fileExists /\ fileId = proc[p].f /\ fileText = <<>>
      [] OTHER -> TRUE

\* the step ends p because a file operation failed
FileFailure(p) == proc'[p].exitCause \in {"stale_remove", "pid_file"}

C5Step(p) ==
    Undisturbed(p) =>
    /\ (pc(p) = "acq_kill" /\ MainStep(p)) =>
          IF MarkerPid # 0 /\ StillAlive(MarkerPid)
          THEN /\ proc'[p].pc = "rel_exists"
               /\ proc'[p].exitCause = "already_running"
               /\ proc'[p].exitCode = 1
               /\ UNCHANGED pidFile
          ELSE proc'[p].pc = "acq_remove"
    /\ (pc(p) = "acq_remove" /\ MainStep(p) /\ ~FileFailure(p)) =>
          fileExists /\ ~fileExists' /\ proc'[p].pc = "pid_open"
    /\ (pc(p) = "pid_open" /\ MainStep(p) /\ ~FileFailure(p)) =>
          proc'[p].pc = "pid_write"
    /\ (pc(p) = "pid_write" /\ MainStep(p) /\ ~FileFailure(p)) =>
          fileExists' /\ fileText' = str(getpid(p)) /\ proc'[p].pc = "sig_int"
    /\ proc'[p].exitCause = "already_running" =>
          ~proc'[p].http_server_instance /\ portOwner' # p

\* C5 as stated: a call of check_and_exit_if_already_running that no other
\* process interferes with and whose file operations succeed.  When the PID
\* file holds the identifier of a process that is alive the call ends the
\* process with status 1 and the server is never started; when it holds the
\* identifier of a process that is not alive, or nothing readable, the call
\* removes the file, writes it anew and the file then holds the identifier
\* of the caller.
C5_AcquireContract == [][\A p \in Procs : C5Step(p)]_vars

\* the step is a call of os.remove by p that the system refuses
RemoveRefused(p) == pc(p) = "rel_remove" /\ fileExists /\ fileExists'

C6Step(p) ==
    LET mine == fileExists /\ fileText = str(getpid(p))
    IN  /\ (pc(p) \in ReleasePCs /\ proc'[p] # proc[p]) =>
              (pidFile' # pidFile => mine /\ ~fileExists')
        /\ (pc(p) \in ReleasePCs /\ proc'[p].cleanupDone) =>
              /\ (proc[p].PID_FILE /\ ~RemoveRefused(p)) =>
                    ~(fileExists' /\ fileText' = str(getpid(p)))
              /\ ~mine => UNCHANGED pidFile

\* C6 as stated: cleanup_pid_file changes the PID file only by removing it,
\* and only when the file holds the identifier of the caller; in every other
\* case, a file that another instance has written in the meantime included,
\* it leaves the file as it is; when it has returned the file does not hold
\* the identifier of the caller, so that a second call would change nothing.
C6_ReleaseContract == [][\A p \in Procs : C6Step(p)]_vars

\* the clone of the request of p ended with a non-zero exit status
CloneFailed(p) ==
    /\ Handled(p)
    /\ req[p].clone_target_dir # 0
    /\ req[p].cloneResult = "CalledProcessError"

\* C7 as stated: when git clone exits non-zero, the status is 500, the
\* editor is not launched and the temporary directory of the request does
\* not exist after the request.
C7_CloneFailureCleansUp ==
    \A p \in Procs :
        CloneFailed(p) =>
            /\ req[p].response_status_code = 500
            /\ req[p].editorCalls = 0
            /\ ~req[p].editorStarted
            /\ req[p].clone_target_dir \notin dirs

\* C7 amended: when git clone exits non-zero, the status is 500 and the
\* editor is not launched; the temporary directory of the request does not
\* exist after the request unless the recursive delete failed, and the
\* status is 500 then too.
C7_CloneFailureDeletes ==
    \A p \in Procs :
        CloneFailed(p) =>
            /\ req[p].response_status_code = 500
            /\ req[p].editorCalls = 0
            /\ ~req[p].editorStarted
            /\ ~DeleteFailed(p) => req[p].clone_target_dir \notin dirs

\* a clone has failed and its directory has been deleted
C7_Witness ==
    \E p \in Procs :
        /\ CloneFailed(p)
        /\ req[p].rmtreeResult = "removed"
        /\ req[p].clone_target_dir \notin dirs
        /\ pc(p) = "serving"

\* C8: when the clone succeeded and the editor started, the status is 200 and
\* the temporary directory exists after the request; it exists in every later
\* state, whatever requests follow and after the process has shut down.
C8_SuccessKeepsDirectory ==
    /\ \A p \in Procs :
           (Handled(p) /\ req[p].cloneResult = "ok" /\ req[p].editorStarted) =>
               /\ req[p].response_status_code = 200
               /\ req[p].clone_target_dir \in dirs
    /\ \A d \in DOMAIN dirStatus : dirStatus[d] = 200 => d \in dirs

C8_Witness ==
    \E d, e \in DOMAIN dirStatus :
        /\ d < e
        /\ dirStatus[d] = 200
        /\ dirStatus[e] >= 400
        /\ d \in dirs
        /\ \A p \in Procs : ~Alive(p)

\* the shapes of the specification: a prefix, an owner, "/", a repository,
\* and ".git" (optional after the first two prefixes)
Segment(s) == s # <<>> /\ \A i \in 1..Len(s) : s[i] \notin ({"/"} \cup Whitespace)

OwnerAndRepo(r, dotGit) ==
    \E i \in 1..Len(r) :
        /\ r[i] = "/"
        /\ Segment(SubSeq(r, 1, i - 1))
        /\ Segment(SubSeq(r, i + 1, Len(r)))
        /\ dotGit => (EndsWith(r, DotGit) /\ Len(r) - i > Len(DotGit))

AcceptedShape(url) ==
    \/ \E pre \in {HttpsPrefix, GitPrefix} :
           StartsWith(url, pre) /\ OwnerAndRepo(Drop(url, Len(pre)), FALSE)
    \/ StartsWith(url, SshPrefix) /\ OwnerAndRepo(Drop(url, Len(SshPrefix)), TRUE)

\* C9 as stated: a request whose non-empty text is of none of the three
\* shapes is answered 400, and neither mkdtemp nor git clone nor the editor
\* is called for it.
C9_OtherShapesRejected ==
    \A p \in Procs :
        (/\ Handled(p)
         /\ ~NoContent(req[p].content_length, req[p].github_url)
         /\ ~AcceptedShape(req[p].github_url)) =>
            /\ req[p].response_status_code = 400
            /\ req[p].mkdtempCalls = 0
            /\ req[p].cloneCalls = 0
            /\ req[p].editorCalls = 0

\* a request has been accepted by p
Begun(p) == req[p].response_status_code # 0

\* the bytes are the UTF-8 encoding of a text
RECURSIVE IsUtf8(_)
IsUtf8(b) ==
    IF b = <<>> THEN TRUE
    ELSE IF b[1] = LeadByte
         THEN Len(b) >= 2 /\ b[2] \in ContinuationBytes /\ IsUtf8(Drop(b, 2))
         ELSE IsValidByte(b[1]) /\ IsUtf8(Tail(b))

\* the body is empty or the encoding of white space only
WhitespaceOnly(b) ==
    IsUtf8(b) /\ \A i \in 1..Len(decode(b)) : decode(b)[i] \in Whitespace

\* the body of the request of p has been received
BodyReceived(p) == req[p].readResult = "read"

\* the Content-Length header is absent, negative or no integer
HeaderUnusable(h) == h.kind # "number" \/ h.n < 0

\* C10: a request received with an empty or whitespace-only body, or whose
\* Content-Length is absent, negative or unparsable (the length is then
\* taken to be 0), is answered 400 and neither mkdtemp nor git clone is
\* called for it.
C10_NoUrlTextRejected ==
    \A p \in Procs :
        (Begun(p) /\ (HeaderUnusable(req[p].header) \/ WhitespaceOnly(req[p].body))) =>
            /\ HeaderUnusable(req[p].header) => req[p].content_length = 0
            /\ req[p].mkdtempCalls = 0
            /\ req[p].cloneCalls = 0
            /\ (Handled(p) /\ BodyReceived(p)) => req[p].response_status_code = 400

C10_Witness ==
    \E p \in Procs :
        /\ Handled(p)
        /\ req[p].header = NumberHeader(-1)
        /\ IsValidUrl(strip(decode(req[p].body)))
        /\ req[p].response_status_code = 400


\* the connection of the request of p was reset while its body was read
ReadFailed(p) == req[p].readResult = "ConnectionResetError"

\* the message of line 237 could not be printed: the directory of the
\* request of p was made and git is not run
InfoFailed(p) ==
    req[p].clone_target_dir # 0 /\ req[p].cloneCalls = 0 /\ pc(p) = "post_finally"

\* something went wrong in the request of p: the read of the body failed,
\* there is no URL text, the URL is of no accepted shape, mkdtemp, the print
\* of the message of line 237, git clone or the editor failed
RequestFailed(p) ==
    \/ ReadFailed(p)
    \/ InfoFailed(p)
    \/ NoContent(req[p].content_length, req[p].github_url)
    \/ ~IsValidUrl(req[p].github_url)
    \/ req[p].mkdtempCalls = 1 /\ req[p].clone_target_dir = 0
    \/ req[p].cloneResult \notin {"none", "ok"}
    \/ req[p].editorCalls = 1 /\ ~req[p].editorStarted

\* the notification tool failed to start in the last call of
\* show_notification by p
NotificationFailed(p) == notes[p].warned

\* the handler of p does not end the process, and answers at most once
StaysInLoop(p) ==
    /\ pc(p) \in PostPCs => (pc(p))' \in PostPCs \cup {"serving"}
    /\ req'[p].responses <= 1

\* the handler of p returns to the accept loop
HandlerEnds(p) == pc(p) = "post_finally" /\ (pc(p))' = "serving"

\* C11 as stated: a failure while a POST request is handled (read,
\* validation, mkdtemp, git clone, editor, notification) ends in exactly one
\* response, with status 400 or 500; the process does not terminate inside
\* the handler and is back in its accept loop once the response is sent.
C11_EveryFailureAnswered ==
    [][\A p \in Procs :
          /\ StaysInLoop(p)
          /\ HandlerEnds(p) =>
                /\ req'[p].responses = 1
                /\ (RequestFailed(p) \/ NotificationFailed(p)) =>
                       req'[p].response_status_code \in {400, 500}]_vars

\* the client has reset the connection of the request of p before the
\* response was written to its end
ConnectionLost(p) == req[p].writeResult \in {"headers_sent", "ConnectionResetError"}

\* what the amended C11 asks of one step of process p
C11Step(p) ==
    /\ StaysInLoop(p)
    /\ HandlerEnds(p) =>
          /\ req'[p].response_status_code \in {200, 400, 500}
          /\ RequestFailed(p) => req'[p].response_status_code \in {400, 500}
          /\ ReadFailed(p) =>
                /\ req'[p].response_status_code = 500
                /\ ConnectionLost(p)'
          /\ IF ConnectionLost(p)'
             THEN /\ req'[p].responses = 0
                  /\ req'[p].response_body = "none"
             ELSE /\ req'[p].responses = 1
                  /\ req'[p].response_headers = PostHeaders
                  /\ req'[p].response_body = "message"

\* C11 amended: a failure of the validation, of mkdtemp, of git clone or of
\* the editor, and a print of the message of line 237 that raises, end in
\* the status 400 or 500, which is sent in exactly one response unless the
\* client has reset the connection: then the headers alone or nothing is
\* sent.  A connection reset while the body is read ends with status 500
\* and nothing sent.  A notification tool that fails to start, and a
\* standard output that keeps the message in its buffer, change nothing to
\* the response, which may be 200.  In every case the process does not
\* terminate inside the handler and is back in its accept loop when the
\* handler ends.
C11_FailuresBecomeResponses == [][\A p \in Procs : C11Step(p)]_vars

\* a request in which the notification tool failed to start and git clone
\* failed has been handled: the directory is deleted, and the client went
\* away after the headers of the response
C11_Witness ==
    \E p \in Procs :
        /\ pc(p) = "serving"
        /\ Handled(p)
        /\ NotificationFailed(p)
        /\ req[p].cloneResult = "CalledProcessError"
        /\ req[p].rmtreeResult = "removed"
        /\ req[p].response_status_code = 500
        /\ req[p].writeResult = "headers_sent"
        /\ req[p].responses = 0

\* the state of the lifecycle a process is in: Init (0), PreflightChecked
\* (1), PortAcquired (2), Serving and Draining (3), the accept loop left
\* (4), release running (5), Stopped (6)
Phase(l) ==
    CASE l \in {"idle", "preflight", "preflight_failed"} -> 0
      [] l \in {"acq_exists", "acq_read", "acq_kill", "acq_remove", "pid_open",
                "pid_write"} -> 1
      [] l \in {"sig_int", "sig_term", "bind", "bind_failed", "assign", "serve",
                "serve_failed"} -> 2
      [] l \in ServingPCs -> 3
      [] l = "close" -> 4
      [] l \in ReleasePCs -> 5
      [] OTHER -> 6

\* pre-flight, acquire or the bind of the listener failed
StartupFailures == {"preflight", "already_running", "stale_remove", "pid_file", "bind"}

\* what C12 asks of one step of process p
C12Step(p) ==
    LET before == Phase(pc(p))
        after == Phase((pc(p))')
    IN  /\ after >= before
        /\ after \in {before, before + 1} \/ after >= 4
        /\ (Alive(p) /\ fileExists' /\ fileText' = str(getpid(p))
               /\ fileText' # fileText) =>
              before = 1
        /\ (portOwner' = p /\ portOwner # p) => before = 2
        /\ (pc(p) \in {"preflight_failed", "bind_failed"} /\ (pc(p))' # pc(p)) =>
              /\ after >= 5
              /\ proc'[p].exitCode \notin {0, -1}
        /\ proc'[p].exitCause \in StartupFailures =>
              /\ proc'[p].exitCode = 1
              /\ after >= 5
              /\ before <= 2 \/ proc[p].exitCause = proc'[p].exitCause

\* C12 as stated: a process goes through Init, PreflightChecked,
\* PortAcquired, Serving, Draining, Stopped in this order; it writes the PID
\* file only after the pre-flight checks passed and binds the listener only
\* after it wrote the PID file; once pre-flight, acquire or bind has failed
\* the process ends with a status other than 0 and has never been in its
\* accept loop.
C12_LifecycleOrder == [][\A p \in Procs : C12Step(p)]_vars

\* SIGINT or SIGTERM has been delivered to p while it was in its accept loop
\* and signal_handler has started the shutdown thread
SignalledWhileServing(p) == InServing(p) /\ proc[p].shutdownPending

\* p has left main by its end, the listener is closed, cleanup_pid_file
\* has run to its end and the process has exited
Stopped(p) ==
    /\ pc(p) = "exited"
    /\ proc[p].exitCause = "normal"
    /\ proc[p].cleanupDone
    /\ portOwner # p

\* signal_handler returns to where the main thread was and does not call
\* shutdown() itself
HandlerReturns(p) ==
    \A sig \in Signals :
        (InServing(p) /\ Signal(p, sig)) =>
            /\ (pc(p))' = pc(p)
            /\ proc'[p].shutdown_request = proc[p].shutdown_request
            /\ proc'[p].shutdownPending

\* the accept loop is left only between two requests, and the listener is
\* closed before release runs
DrainOrder(p) ==
    /\ pc(p) \in {"close"} \cup ReleasePCs =>
          (Begun(p) => Handled(p) \/ ReadFailed(p))
    /\ (pc(p) \in ReleasePCs /\ proc[p].exitCause = "normal") => portOwner # p

\* C13 as stated: when a termination signal is delivered to a process in
\* its accept loop, the handler returns without waiting for the listener;
\* the request in progress is handled to its end, and then serve_forever
\* returns, the listener is closed, cleanup_pid_file runs and the process
\* exits.
C13_SignalDrains ==
    /\ \A p \in Procs : SignalledWhileServing(p) ~> Stopped(p)
    /\ [][\A p \in Procs : HandlerReturns(p)]_vars
    /\ [](\A p \in Procs : DrainOrder(p))

\* p has been started and has not entered its accept loop yet
BeforeServing(p) == Alive(p) /\ Phase(pc(p)) <= 2

\* what C14 asks of one step of process p
C14Step(p) ==
    \A sig \in Signals :
        (BeforeServing(p) /\ Signal(p, sig)) => Phase((pc(p))') >= 5

\* C14: a termination signal delivered before the accept loop is entered,
\* the time after the bind of the listener included, terminates the process
\* from the signal handling: the main thread goes on with the exit of the
\* process and not with serve_forever.
C14_EarlySignalTerminates == [][\A p \in Procs : C14Step(p)]_vars

\* the cross-origin headers: any origin, the methods POST and OPTIONS, the
\* common request headers, one day of caching
PermissiveHeaders ==
    {<<"Access-Control-Allow-Origin", "*">>,
     <<"Access-Control-Allow-Methods", "POST, OPTIONS">>,
     <<"Access-Control-Allow-Headers", "Content-Type, X-Requested-With">>,
     <<"Access-Control-Max-Age", "86400">>}

\* the request of p is an OPTIONS request
IsOptions(p) == req[p].method = "OPTIONS"

\* C15 as stated: an OPTIONS request, whatever its path and headers, is
\* answered with status 204, the permissive cross-origin headers and no
\* body, and neither mkdtemp nor git clone nor the editor is called for it.
C15_OptionsAnswered204 ==
    \A p \in Procs :
        IsOptions(p) =>
            /\ req[p].responses = 1
            /\ req[p].response_status_code = 204
            /\ req[p].response_headers = PermissiveHeaders
            /\ req[p].response_body = "empty"
            /\ req[p].mkdtempCalls = 0
            /\ req[p].cloneCalls = 0
            /\ req[p].editorCalls = 0
            /\ req[p].clone_target_dir = 0
            /\ mkdtempCount < reqCount

\* C15 amended: for an OPTIONS request, whatever its path and headers,
\* do_OPTIONS sends status 204, the permissive cross-origin headers and no
\* body, unless the client has reset the connection: then nothing is sent;
\* in either case neither mkdtemp nor git clone nor the editor is called
\* for it.
C15_OptionsAnswered204UnlessReset ==
    \A p \in Procs :
        IsOptions(p) =>
            /\ req[p].response_status_code = 204
            /\ IF req[p].writeResult = "ConnectionResetError"
               THEN /\ req[p].responses = 0
                    /\ req[p].response_headers = {}
                    /\ req[p].response_body = "none"
               ELSE /\ req[p].responses = 1
                    /\ req[p].response_headers = PermissiveHeaders
                    /\ req[p].response_body = "empty"
            /\ req[p].mkdtempCalls = 0
            /\ req[p].cloneCalls = 0
            /\ req[p].editorCalls = 0
            /\ req[p].clone_target_dir = 0
            /\ mkdtempCount < reqCount

\* an OPTIONS request on a path other than "/", with a Content-Length, has
\* been answered after a POST request that left a directory
C15_Witness ==
    \E p \in Procs :
        /\ IsOptions(p)
        /\ req[p].path = "/clone"
        /\ req[p].header = NumberHeader(1)
        /\ req[p].response_status_code = 204
        /\ req[p].responses = 1
        /\ dirs = {1}

\* The integers as int() of Python reads them: decimal digits of any
\* script of Unicode, single underscores between digits, a sign in front,
\* white space around.  The decimal digits of the arguments, each with its
\* value:
DecimalDigits ==
    [c \in {"0", "U+0660", "U+FF10"} |-> 0] @@ [c \in {"1", "U+0661", "U+FF11"} |-> 1] @@
    [c \in {"2", "U+0662", "U+FF12"} |-> 2] @@ [c \in {"3", "U+0663", "U+FF13"} |-> 3] @@
    [c \in {"4", "U+0664", "U+FF14"} |-> 4] @@ [c \in {"5", "U+0665", "U+FF15"} |-> 5] @@
    [c \in {"6", "U+0666", "U+FF16"} |-> 6] @@ [c \in {"7", "U+0667", "U+FF17"} |-> 7] @@
    [c \in {"8", "U+0668", "U+FF18"} |-> 8] @@ [c \in {"9", "U+0669", "U+FF19"} |-> 9]

\* the white space of the arguments that int() skips
Blank(c) == c = " "

\* the value of the digits a[i..j], read from the left, the underscores
\* passed over; a value above 65535 is kept as 65536
RECURSIVE ValueFrom(_, _, _, _)
ValueFrom(a, i, j, sofar) ==
    IF i > j THEN sofar
    ELSE IF a[i] = "_" THEN ValueFrom(a, i + 1, j, sofar)
    ELSE LET next == 10 * sofar + DecimalDigits[a[i]]
         IN  ValueFrom(a, i + 1, j, IF next > 65535 THEN 65536 ELSE next)

\* a[i..j] is a run of decimal digits with single underscores inside it
DigitRun(a, i, j) ==
    /\ i <= j
    /\ a[i] \in DOMAIN DecimalDigits
    /\ a[j] \in DOMAIN DecimalDigits
    /\ \A k \in i..j : a[k] \in DOMAIN DecimalDigits \/ a[k] = "_"
    /\ \A k \in i..(j - 1) : a[k] # "_" \/ a[k + 1] # "_"

\* the argument is blanks, a plus sign or none, the digits a[i..j], blanks
NumberAt(arg, i, j) ==
    /\ DigitRun(arg, i, j)
    /\ \A k \in (j + 1)..Len(arg) : Blank(arg[k])
    /\ \/ \A k \in 1..(i - 1) : Blank(arg[k])
       \/ /\ i > 1
          /\ arg[i - 1] = "+"
          /\ \A k \in 1..(i - 2) : Blank(arg[k])

\* the integer from 1024 to 65535 the argument stands for (0: none)
PortNumber(arg) ==
    IF \E i, j \in 1..Len(arg) : NumberAt(arg, i, j)
    THEN LET at == CHOOSE at \in (1..Len(arg)) \X (1..Len(arg)) :
                       NumberAt(arg, at[1], at[2])
             n == ValueFrom(arg, at[1], at[2], 0)
         IN  IF n >= 1024 /\ n <= 65535 THEN n ELSE 0
    ELSE 0

\* the argument stands for an integer from 1024 to 65535
IsPortNumber(arg) == PortNumber(arg) # 0

\* p is about to leave with status 1 and has touched neither the PID file
\* nor the port
ExitsBeforeStartup(p) ==
    /\ pc(p) = "rel_exists"
    /\ proc[p].exitCode = 1
    /\ proc[p].exitCause = "argv"
    /\ ~proc[p].PID_FILE
    /\ proc[p].current_port = 0
    /\ fileId = 0
    /\ \E file \in InitialPidFiles : fileExists = file.exists /\ fileText = file.text
    /\ portOwner = 0

\* C16: without an argument the port is 45678; with an argument that is an
\* integer from 1024 to 65535 the port is that integer; with any other
\* argument the process exits with status 1 before the pre-flight checks,
\* the PID file and the bind.
C16_PortFromArgument ==
    \A p \in Procs :
        Alive(p) =>
            IF proc[p].argv = <<>>
            THEN proc[p].current_port = 45678
            ELSE IF IsPortNumber(proc[p].argv[1])
                 THEN proc[p].current_port = PortNumber(proc[p].argv[1])
                 ELSE ExitsBeforeStartup(p)

\* a process has taken the lower end of the range, written with a sign and
\* the digits of three scripts, as its port
C16_Witness ==
    \E p \in Procs :
        /\ pc(p) = "preflight"
        /\ proc[p].argv = <<(<<"+", "U+FF11", "U+0660", "2", "U+FF14">>)>>
        /\ proc[p].current_port = 1024

\* mkdtemp was called for the request of p and raised
MkdtempFailed(p) == req[p].mkdtempCalls = 1 /\ req[p].clone_target_dir = 0

\* C17: when mkdtemp fails for a request with a valid URL, the response is
\* 500, git clone and the editor are not called, and no directory is created
\* or removed for the request.
C17_MkdtempFailure ==
    \A p \in Procs :
        MkdtempFailed(p) =>
            /\ IsValidUrl(req[p].github_url)
            /\ req[p].response_status_code = 500
            /\ req[p].cloneCalls = 0
            /\ req[p].editorCalls = 0
            /\ req[p].rmtreeCalls = 0
            /\ mkdtempCount < reqCount
            /\ pc(p) \in {"post_finally", "serving", "close"} \cup ReleasePCs

\* the request has been answered after mkdtemp failed
C17_Witness ==
    \E p \in Procs :
        /\ MkdtempFailed(p)
        /\ Handled(p)
        /\ req[p].response_status_code = 500
        /\ dirs = {}

\* the URL of the request of p passed the validation of lines 221-227
ValidationPassed(p) ==
    /\ ~NoContent(req[p].content_length, req[p].github_url)
    /\ IsValidUrl(req[p].github_url)

\* C18: within one request mkdtemp, git clone and the editor are each
\* called at most once; mkdtemp only for a URL that passed validation, git
\* clone only after mkdtemp made the directory, the editor only after git
\* clone succeeded.
C18_StepsInOrder ==
    \A p \in Procs :
        /\ req[p].mkdtempCalls <= 1
        /\ req[p].cloneCalls <= 1
        /\ req[p].editorCalls <= 1
        /\ req[p].mkdtempCalls = 1 => ValidationPassed(p)
        /\ req[p].cloneCalls = 1 =>
              /\ ValidationPassed(p)
              /\ req[p].mkdtempCalls = 1
              /\ req[p].clone_target_dir # 0
        /\ req[p].editorCalls = 1 =>
              /\ req[p].cloneCalls = 1
              /\ req[p].cloneResult = "ok"

\* the second request has run all its steps up to the editor
C18_Witness ==
    \E p \in Procs :
        /\ reqCount = 2
        /\ pc(p) = "post_finally"
        /\ req[p].mkdtempCalls = 1
        /\ req[p].cloneCalls = 1
        /\ req[p].editorCalls = 1
        /\ req[p].cloneResult = "ok"

\* show_notification has started a popup tool and has not returned: its
\* caller is kept waiting for the tool to end
WaitsForBackend ==
    \E p \in Procs :
        /\ notes[p].waiting
        /\ notes[p].notification_cmd[1] \in Backends

\* C19: whichever of the three popup tools is the first one available,
\* show_notification starts it and goes on to the console output without
\* waiting for the tool to end.
C19_NeverWaitsForBackend == ~WaitsForBackend

\* the PID file exists and holds the identifier of p
HoldsMarker(p) == fileExists /\ fileText = str(getpid(p))

\* C20: whenever a process is in its accept loop, the PID file of the port
\* exists and holds the identifier of that process, whatever other
\* processes started for the port do in between.
C20_ServingHoldsMarker == \A p \in Procs : InServing(p) => HoldsMarker(p)
====
